---- MODULE Spec2Model ----
(***************************************************************************)
(* A model of process_boosters.py: process_booster_images() lists the      *)
(* boosters directory, keeps the entries whose name ends in an image       *)
(* extension and, for each of them, opens, autocrops, resizes and saves    *)
(* the image in place, inside one try/except per file.                     *)
(*                                                                         *)
(* The Pillow calls are modelled by their documented behaviour:            *)
(*   Image.open(p).convert("RGBA")  raises on a directory or on content    *)
(*        that is no image; otherwise yields an RGBA raster;               *)
(*   img.getbbox()   the box of the pixels with alpha > 0, None if none;   *)
(*   img.crop(box)   the raster inside the box;                            *)
(*   img.resize(..)  a raster of the requested size (may raise);           *)
(*   img.save(path)  picks the format from the extension, opens the path   *)
(*        for writing (truncating it) and encodes; the JPEG encoder        *)
(*        refuses mode RGBA after the file was opened.                     *)
(***************************************************************************)
EXTENDS Integers, Sequences, FiniteSets, TLC

VARIABLES
    dir,          \* the boosters directory: [status, listing, kind]
    disk,         \* name -> what the file holds now
    pc,           \* position in process_booster_images
    image_files,  \* line 11
    idx,          \* position of the for loop in image_files (1-based)
    img,          \* line 21
    bbox,         \* line 25
    cropped_img,  \* lines 27/29
    width,        \* line 32
    height,       \* line 32
    new_width,    \* lines 38/42
    new_height,   \* lines 39/43
    resized_img,  \* line 45
    exc,          \* the exception in flight (None when there is none)
    out           \* what was printed, in order

vars == <<dir, disk, pc, image_files, idx, img, bbox, cropped_img, width,
          height, new_width, new_height, resized_img, exc, out>>

\* Python's None, for a name bound to an exception, a box, an image
None == "None"
NoBox == <<>>
NoImage == [w |-> 0, h |-> 0, px |-> <<>>]

\* ---------------------------------------------------------------- bounds
MaxEntries == 2
MaxPixels == 3
MaxW == 21
MaxH == 7

\* ------------------------------------------------------------- constants
TARGET_HEIGHT == 300

\* ------------------------------------------------------------ file names
\* A file name is a sequence of characters, so that lower() and endswith()
\* are computed as line 11 computes them.
UpperChars == <<"A","B","C","D","E","F","G","H","I","J","K","L","M",
                "N","O","P","Q","R","S","T","U","V","W","X","Y","Z">>
LowerChars == <<"a","b","c","d","e","f","g","h","i","j","k","l","m",
                "n","o","p","q","r","s","t","u","v","w","x","y","z">>

LowerChar(c) ==
    IF \E k \in 1..Len(UpperChars) : UpperChars[k] = c
    THEN LowerChars[CHOOSE k \in 1..Len(UpperChars) : UpperChars[k] = c]
    ELSE c

\* str.lower()
Lower(s) == [k \in 1..Len(s) |-> LowerChar(s[k])]

\* str.endswith(suffix)
EndsWith(s, suffix) ==
    /\ Len(s) >= Len(suffix)
    /\ SubSeq(s, Len(s) - Len(suffix) + 1, Len(s)) = suffix

\* the tuple of line 11: ('.png', '.jpg', '.jpeg')
ImageSuffixes == { <<".","p","n","g">>, <<".","j","p","g">>, <<".","j","p","e","g">> }

\* the filter of line 11
IsImageName(f) ==
    LET lowered == Lower(f)
    IN  \E suffix \in ImageSuffixes : EndsWith(lowered, suffix)

\* Image.save(): the format is looked up from the lower-cased extension.
FormatOf(f) ==
    LET lowered == Lower(f)
    IN  IF EndsWith(lowered, <<".","p","n","g">>) THEN "PNG"
        ELSE IF EndsWith(lowered, <<".","j","p","g">>)
                \/ EndsWith(lowered, <<".","j","p","e","g">>) THEN "JPEG"
        ELSE "unknown"

\* The directory entries the model draws from: regular files and
\* sub-directories, with matching, upper-case and non-matching names.
EntryPool ==
    { [name |-> <<"a",".","p","n","g">>,     kind |-> "file"],
      [name |-> <<"e",".","P","n","G">>,     kind |-> "file"],
      [name |-> <<"B",".","J","P","G">>,     kind |-> "file"],
      [name |-> <<"c",".","j","p","e","g">>, kind |-> "file"],
      [name |-> <<"d",".","t","x","t">>,     kind |-> "file"],
      [name |-> <<"s",".","p","n","g">>,     kind |-> "dir"] }

PoolNames == { e.name : e \in EntryPool }

KindOf(f) == (CHOOSE e \in EntryPool : e.name = f).kind

\* os.listdir() returns the entries in arbitrary order, each once.
Listings ==
    { l \in UNION { [1..n -> PoolNames] : n \in 0..MaxEntries } :
        \A a, b \in 1..Len(l) : a # b => l[a] # l[b] }

\* ---------------------------------------------------------------- images
\* An RGBA raster: w columns, h rows, px[y][x] the alpha of a pixel
\* (0: fully transparent, 1: the least non-transparent value).
AlphaLevels == {0, 1}

Rasters(w, h) == { [w |-> w, h |-> h, px |-> p] : p \in [1..h -> [1..w -> AlphaLevels]] }

\* What Image.open(...).convert("RGBA") can decode: every raster of at most
\* MaxPixels pixels, and the empty rasters of height 0.
ImageSizes == { s \in (1..MaxPixels) \X (0..MaxPixels) : s[1] * s[2] <= MaxPixels }

Images == UNION { Rasters(s[1], s[2]) : s \in ImageSizes }

MinOf(S) == CHOOSE m \in S : \A k \in S : m <= k
MaxOf(S) == CHOOSE m \in S : \A k \in S : m >= k

\* GetBBox with right and lower taken as the last column and row themselves.
GetBBoxInclusive(im) ==
    LET cols == { x \in 1..im.w : \E y \in 1..im.h : im.px[y][x] > 0 }
        rows == { y \in 1..im.h : \E x \in 1..im.w : im.px[y][x] > 0 }
    IN  IF cols = {} THEN NoBox
        ELSE <<MinOf(cols) - 1, MinOf(rows) - 1, MaxOf(cols) - 1, MaxOf(rows) - 1>>

\* Image.getbbox() of an RGBA image: (left, upper, right, lower) of the
\* pixels with alpha > 0, right and lower exclusive; None when there is none.
GetBBox(im) ==
    LET cols == { x \in 1..im.w : \E y \in 1..im.h : im.px[y][x] > 0 }
        rows == { y \in 1..im.h : \E x \in 1..im.w : im.px[y][x] > 0 }
    IN  IF cols = {} THEN NoBox
        ELSE <<MinOf(cols) - 1, MinOf(rows) - 1, MaxOf(cols), MaxOf(rows)>>

\* Image.crop(box)
Crop(im, box) ==
    [w  |-> box[3] - box[1],
     h  |-> box[4] - box[2],
     px |-> [y \in 1..(box[4] - box[2]) |->
               [x \in 1..(box[3] - box[1]) |-> im.px[y + box[2]][x + box[1]]]]]

\* ------------------------------------------------- floating point (binary64)
\* Lines 37-38 compute in Python floats: TARGET_HEIGHT / height is the
\* quotient rounded to the nearest double, width * scale_factor the product
\* rounded to the nearest double, int() truncates.  A double is modelled as
\* [m, e]: m its 53 significand bits, most significant first, e the exponent
\* of the last bit (value = m * 2^e); Zero is 0.0.
Zero == [m |-> <<>>, e |-> 0]

RECURSIVE IntBits(_)
\* the binary digits of n >= 1, most significant first
IntBits(n) == IF n = 0 THEN <<>> ELSE IntBits(n \div 2) \o <<n % 2>>

RECURSIVE BitsToInt(_)
BitsToInt(bits) ==
    IF bits = <<>> THEN 0
    ELSE 2 * BitsToInt(SubSeq(bits, 1, Len(bits) - 1)) + bits[Len(bits)]

Reverse(s) == [k \in 1..Len(s) |-> s[Len(s) + 1 - k]]

Zeros(n) == [k \in 1..n |-> 0]

RECURSIVE IncLSB(_)
\* bits (least significant first) plus one, same length; wraps to zeros
IncLSB(bits) ==
    IF bits = <<>> THEN <<>>
    ELSE IF Head(bits) = 0 THEN <<1>> \o Tail(bits)
    ELSE <<0>> \o IncLSB(Tail(bits))

\* Round bits * 2^e (bits most significant first, leading 1; sticky: a
\* non-zero remainder below the last bit) to 53 bits, ties to even.
RoundBits(bits, e, sticky) ==
    LET n == Len(bits) IN
    IF n <= 53 THEN [m |-> bits \o Zeros(53 - n), e |-> e - (53 - n)]
    ELSE
      LET keep  == SubSeq(bits, 1, 53)
          guard == bits[54]
          rest  == sticky \/ \E k \in 55..n : bits[k] = 1
          up    == guard = 1 /\ (rest \/ keep[53] = 1)
          inc   == Reverse(IncLSB(Reverse(keep)))
      IN  IF ~up THEN [m |-> keep, e |-> e + (n - 53)]
          ELSE IF \A k \in 1..53 : keep[k] = 1
               THEN [m |-> <<1>> \o Zeros(52), e |-> e + (n - 53) + 1]
               ELSE [m |-> inc, e |-> e + (n - 53)]

RECURSIVE DivBits(_, _, _)
\* the next n binary digits of r / b, 0 <= r < b
DivBits(r, b, n) ==
    IF n = 0 THEN <<>>
    ELSE LET d == IF 2 * r >= b THEN 1 ELSE 0
         IN  <<d>> \o DivBits(2 * r - d * b, b, n - 1)

RECURSIVE DivRem(_, _, _)
\* the remainder after those n digits
DivRem(r, b, n) ==
    IF n = 0 THEN r
    ELSE LET d == IF 2 * r >= b THEN 1 ELSE 0
         IN  DivRem(2 * r - d * b, b, n - 1)

RECURSIVE LeadZeros(_, _)
\* the number of zero digits of r / b (0 < r < b) before its first 1
LeadZeros(r, b) == IF 2 * r >= b THEN 0 ELSE 1 + LeadZeros(2 * r, b)

RECURSIVE Pow2(_)
Pow2(n) == IF n = 0 THEN 1 ELSE 2 * Pow2(n - 1)

\* a / b in floats, for integers a > 0, b > 0 (line 37)
FDiv(a, b) ==
    LET q == a \div b
        r == a % b
    IN  IF q >= 1
        THEN LET ib == IntBits(q)
                 nf == 55 - Len(ib)
             IN  RoundBits(ib \o DivBits(r, b, nf), 0 - nf, DivRem(r, b, nf) # 0)
        ELSE LET z  == LeadZeros(r, b)
                 r1 == r * Pow2(z)
             IN  RoundBits(DivBits(r1, b, 55), 0 - (z + 55), DivRem(r1, b, 55) # 0)

RECURSIVE MulLSB(_, _, _)
\* bits (least significant first) times the integer w, plus carry
MulLSB(bits, w, carry) ==
    IF bits = <<>>
    THEN IF carry = 0 THEN <<>> ELSE <<carry % 2>> \o MulLSB(<<>>, w, carry \div 2)
    ELSE LET d == Head(bits) * w + carry
         IN  <<d % 2>> \o MulLSB(Tail(bits), w, d \div 2)

\* w * d in floats, for an integer w >= 0 (line 38: the int is converted
\* exactly, the product is rounded once)
FMulInt(w, d) ==
    IF w = 0 \/ d = Zero THEN Zero
    ELSE RoundBits(Reverse(MulLSB(Reverse(d.m), w, 0)), d.e, FALSE)

\* int(d): truncation toward zero (line 38)
FTrunc(d) ==
    IF d = Zero \/ 53 + d.e <= 0 THEN 0
    ELSE BitsToInt(SubSeq(d.m, 1, 53 + d.e))

\* lines 37-38: int(width * (TARGET_HEIGHT / height))
ScaledWidth(w, h) == FTrunc(FMulInt(w, FDiv(TARGET_HEIGHT, h)))

\* ScaledWidth for every size the model meets, evaluated once.
MaxOfTwo(a, b) == IF a >= b THEN a ELSE b

ScaledWidths ==
    [w \in 0..MaxOfTwo(MaxW, MaxPixels), h \in 1..MaxOfTwo(MaxH, MaxPixels) |->
        ScaledWidth(w, h)]

\* lines 37-38 and 42: max(1, int(width * scale_factor))
NewWidth(w, h) == IF ScaledWidths[w, h] >= 1 THEN ScaledWidths[w, h] ELSE 1

\* lines 39 and 43
NewHeight == IF TARGET_HEIGHT >= 1 THEN TARGET_HEIGHT ELSE 1

\* The same width on exact integers: max(1, floor(w * TARGET_HEIGHT / h)).
ExactWidth(w, h) ==
    IF (w * TARGET_HEIGHT) \div h >= 1 THEN (w * TARGET_HEIGHT) \div h ELSE 1

\* --------------------------------------------------------------- printing
\* One record per print() call: what was printed, about which file.
Line(kind, f, w, h, e) == [kind |-> kind, file |-> f, w |-> w, h |-> h, e |-> e]

NoImagesLine    == Line("no_images", <<>>, 0, 0, None)       \* line 14
StartLine       == Line("start", <<>>, 0, 0, None)           \* line 17
SkipLine(f)     == Line("skip", f, 0, 0, None)               \* line 34
ProcessedLine(f, w, h) == Line("processed", f, w, h, None)   \* line 49
ErrorLine(f, e) == Line("error", f, 0, 0, e)                 \* line 52
CompleteLine    == Line("complete", <<>>, 0, 0, None)        \* line 54

\* ------------------------------------------------------------------- disk
\* What a directory entry holds: its content from before the run, a
\* completely written resized image, or the cut-off remains of a write.
Original  == [state |-> "original", w |-> 0, h |-> 0, fmt |-> None]
Truncated == [state |-> "truncated", w |-> 0, h |-> 0, fmt |-> None]
Written(im, fmt) == [state |-> "resized", w |-> im.w, h |-> im.h, fmt |-> fmt]

\* ------------------------------------------------------------------- Init
Directories ==
    { [status |-> "ok", listing |-> l] : l \in Listings }
    \cup { [status |-> "missing", listing |-> <<>>],
           [status |-> "unreadable", listing |-> <<>>] }

Locals ==
    /\ image_files = <<>>
    /\ idx = 0
    /\ img = NoImage
    /\ bbox = NoBox
    /\ cropped_img = NoImage
    /\ width = 0
    /\ height = 0
    /\ new_width = 0
    /\ new_height = 0
    /\ resized_img = NoImage
    /\ exc = None
    /\ out = <<>>

Init ==
    /\ dir \in Directories
    /\ disk = [f \in { dir.listing[k] : k \in 1..Len(dir.listing) } |-> Original]
    /\ pc = "start"
    /\ Locals

\* ---------------------------------------------------------------- actions
filename == image_files[idx]

\* The end of one pass of the for loop (lines 18, 35, 49, 52): the next
\* file, or line 54 after the last.  The names bound in the pass are all
\* rebound before they are read again; the model drops their values here.
NextFile ==
    /\ pc' = IF idx < Len(image_files) THEN "open" ELSE "finish"
    /\ idx' = IF idx < Len(image_files) THEN idx + 1 ELSE idx
    /\ img' = NoImage
    /\ bbox' = NoBox
    /\ cropped_img' = NoImage
    /\ width' = 0
    /\ height' = 0
    /\ new_width' = 0
    /\ new_height' = 0
    /\ resized_img' = NoImage
    /\ exc' = None

\* line 11: the names os.listdir() returned that pass the filter, in order
Selected(listing) == SelectSeq(listing, IsImageName)

\* lines 11-17: list the directory, filter, report
ListDir ==
    /\ pc = "start"
    /\ IF dir.status # "ok"
       THEN \* os.listdir raises (FileNotFoundError, PermissionError) outside
            \* every try block: process_booster_images ends by the exception
            /\ exc' = IF dir.status = "missing" THEN "FileNotFoundError"
                                                ELSE "PermissionError"
            /\ pc' = "raised"
            /\ UNCHANGED <<image_files, idx, out>>
       ELSE /\ image_files' = Selected(dir.listing)
            /\ IF image_files' = <<>>
               THEN /\ out' = Append(out, NoImagesLine)
                    /\ pc' = "returned"
                    /\ idx' = idx
               ELSE /\ out' = Append(out, StartLine)
                    /\ pc' = "open"
                    /\ idx' = 1
            /\ exc' = exc
    /\ UNCHANGED <<dir, disk, img, bbox, cropped_img, width, height,
                   new_width, new_height, resized_img>>

\* line 21: Image.open(filepath).convert("RGBA")
Open ==
    /\ pc = "open"
    /\ \/ /\ KindOf(filename) = "dir"
          /\ exc' = "IsADirectoryError"
          /\ pc' = "except"
          /\ img' = img
       \/ /\ KindOf(filename) = "file"
          /\ exc' \in {"UnidentifiedImageError", "PermissionError"}
          /\ pc' = "except"
          /\ img' = img
       \/ /\ KindOf(filename) = "file"
          /\ img' \in Images
          /\ pc' = "getbbox"
          /\ exc' = exc
    /\ UNCHANGED <<dir, disk, image_files, idx, bbox, cropped_img, width,
                   height, new_width, new_height, resized_img, out>>

\* lines 25-29
Autocrop ==
    /\ pc = "getbbox"
    /\ bbox' = GetBBox(img)
    /\ cropped_img' = IF bbox' # NoBox THEN Crop(img, bbox') ELSE img
    /\ pc' = "size"
    /\ UNCHANGED <<dir, disk, image_files, idx, img, width, height,
                   new_width, new_height, resized_img, exc, out>>

\* lines 32-33 and 37-43
Scale ==
    /\ pc = "size"
    /\ width' = cropped_img.w
    /\ height' = cropped_img.h
    /\ IF cropped_img.h = 0
       THEN /\ pc' = "skip"
            /\ UNCHANGED <<new_width, new_height>>
       ELSE /\ new_width' = NewWidth(cropped_img.w, cropped_img.h)
            /\ new_height' = NewHeight
            /\ pc' = "resize"
    /\ UNCHANGED <<dir, disk, image_files, idx, img, bbox, cropped_img,
                   resized_img, exc, out>>

\* lines 34-35
Skip ==
    /\ pc = "skip"
    /\ out' = Append(out, SkipLine(filename))
    /\ NextFile
    /\ UNCHANGED <<dir, disk, image_files>>

\* Resize with the output file opened for writing before the resampling.
ResizeTruncates ==
    /\ pc = "resize"
    /\ \/ /\ resized_img' = [w |-> new_width, h |-> new_height, px |-> <<>>]
          /\ pc' = "save"
          /\ exc' = exc
          /\ disk' = disk
       \/ /\ exc' = "MemoryError"
          /\ pc' = "except"
          /\ resized_img' = resized_img
          /\ disk' = [disk EXCEPT ![filename] = Truncated]
    /\ UNCHANGED <<dir, image_files, idx, img, bbox, cropped_img,
                   width, height, new_width, new_height, out>>

\* line 45: the resized raster (its pixels are not modelled), or an
\* exception of the resampler (MemoryError)
Resize ==
    /\ pc = "resize"
    /\ \/ /\ resized_img' = [w |-> new_width, h |-> new_height, px |-> <<>>]
          /\ pc' = "save"
          /\ exc' = exc
       \/ /\ exc' = "MemoryError"
          /\ pc' = "except"
          /\ resized_img' = resized_img
    /\ UNCHANGED <<dir, disk, image_files, idx, img, bbox, cropped_img,
                   width, height, new_width, new_height, out>>

\* What Image.save(filepath) does to the file, by outcome.
SaveResult(f, im, outcome) ==
    CASE outcome = "open_failed" -> disk[f]
      [] outcome = "encoder_refused" -> Truncated
      [] outcome = "write_failed" -> Truncated
      [] outcome = "written" -> Written(im, FormatOf(f))

\* The outcomes Image.save(filepath) can have for an RGBA image.
SaveOutcomes(f) ==
    IF FormatOf(f) = "JPEG" THEN {"open_failed", "encoder_refused"}
    ELSE {"open_failed", "write_failed", "written"}

SaveError(outcome) ==
    CASE outcome = "open_failed" -> "PermissionError"
      [] outcome = "encoder_refused" -> "OSError: cannot write mode RGBA as JPEG"
      [] outcome = "write_failed" -> "OSError: No space left on device"

\* Save writing to the path of the first selected file.
SaveFirstFile ==
    /\ pc = "save"
    /\ \E outcome \in SaveOutcomes(filename) :
          /\ disk' = [disk EXCEPT ![image_files[1]] =
                         SaveResult(filename, resized_img, outcome)]
          /\ IF outcome = "written"
             THEN pc' = "report" /\ exc' = exc
             ELSE pc' = "except" /\ exc' = SaveError(outcome)
    /\ UNCHANGED <<dir, image_files, idx, img, bbox, cropped_img, width,
                   height, new_width, new_height, resized_img, out>>

\* line 48
Save ==
    /\ pc = "save"
    /\ \E outcome \in SaveOutcomes(filename) :
          /\ disk' = [disk EXCEPT ![filename] = SaveResult(filename, resized_img, outcome)]
          /\ IF outcome = "written"
             THEN pc' = "report" /\ exc' = exc
             ELSE pc' = "except" /\ exc' = SaveError(outcome)
    /\ UNCHANGED <<dir, image_files, idx, img, bbox, cropped_img, width,
                   height, new_width, new_height, resized_img, out>>

\* line 49
Report ==
    /\ pc = "report"
    /\ out' = Append(out, ProcessedLine(filename, new_width, new_height))
    /\ NextFile
    /\ UNCHANGED <<dir, disk, image_files>>

\* Except leaving the loop after its report.
ExceptAborts ==
    /\ pc = "except"
    /\ out' = Append(out, ErrorLine(filename, exc))
    /\ pc' = "finish"
    /\ exc' = None
    /\ UNCHANGED <<dir, disk, image_files, idx, img, bbox, cropped_img,
                   width, height, new_width, new_height, resized_img>>

\* lines 51-52
Except ==
    /\ pc = "except"
    /\ out' = Append(out, ErrorLine(filename, exc))
    /\ NextFile
    /\ UNCHANGED <<dir, disk, image_files>>

\* Finish without its print.
FinishSilent ==
    /\ pc = "finish"
    /\ pc' = "returned"
    /\ UNCHANGED <<dir, disk, image_files, idx, img, bbox, cropped_img,
                   width, height, new_width, new_height, resized_img, exc, out>>

\* line 54
Finish ==
    /\ pc = "finish"
    /\ out' = Append(out, CompleteLine)
    /\ pc' = "returned"
    /\ UNCHANGED <<dir, disk, image_files, idx, img, bbox, cropped_img,
                   width, height, new_width, new_height, resized_img, exc>>

Next ==
    \/ ListDir
    \/ Open
    \/ Autocrop
    \/ Scale
    \/ Skip
    \/ Resize
    \/ Save
    \/ Report
    \/ Except
    \/ Finish

Spec == Init /\ [][Next]_vars

\* ------------------------------------------- the width computation alone
\* lines 32-43 on their own, for cropped sizes up to MaxW x MaxH
InitWidth ==
    /\ dir = [status |-> "ok", listing |-> <<>>]
    /\ disk = <<>>
    /\ pc = "size_only"
    /\ image_files = <<>>
    /\ idx = 0
    /\ img = NoImage
    /\ bbox = NoBox
    /\ cropped_img = NoImage
    /\ width \in 0..MaxW
    /\ height \in 1..MaxH
    /\ new_width = 0
    /\ new_height = 0
    /\ resized_img = NoImage
    /\ exc = None
    /\ out = <<>>

ScaleOnly ==
    /\ pc = "size_only"
    /\ new_width' = NewWidth(width, height)
    /\ new_height' = NewHeight
    /\ pc' = "scaled"
    /\ UNCHANGED <<dir, disk, image_files, idx, img, bbox, cropped_img,
                   width, height, resized_img, exc, out>>

NextWidth == ScaleOnly

SpecWidth == InitWidth /\ [][NextWidth]_vars

\* ================================================================ claims
PerFileKinds == {"processed", "skip", "error"}

IsFileLine(l) == l.kind \in PerFileKinds

\* the files the per-file lines are about, in the order printed
ReportedFiles == LET ls == SelectSeq(out, IsFileLine) IN [k \in 1..Len(ls) |-> ls[k].file]

InPass == pc \in {"open", "getbbox", "size", "skip", "resize", "save", "report", "except"}

BeforeWrite == pc \in {"open", "getbbox", "size", "skip", "resize", "save"}

\* the number of files whose pass is over
FilesDone ==
    IF InPass THEN idx - 1
    ELSE IF pc \in {"finish", "returned"} THEN Len(image_files)
    ELSE 0

HasPixels(im) == im.w > 0 /\ im.h > 0

NonTransparent(im) == \E y \in 1..im.h, x \in 1..im.w : im.px[y][x] > 0

AllTransparent(im) == HasPixels(im) /\ ~NonTransparent(im)

\* the exceptions that leave the file as it was
ErrorsBeforeWrite ==
    {"IsADirectoryError", "UnidentifiedImageError", "PermissionError", "MemoryError"}

\* the exceptions a failing environment raises, whatever the image is
EnvironmentFaults ==
    {"MemoryError", "PermissionError", "OSError: No space left on device"}

\* the exceptions of lines 45 and 48
ResizeOrSaveErrors ==
    {"MemoryError", "PermissionError", "OSError: No space left on device",
     "OSError: cannot write mode RGBA as JPEG"}

\* C1: fault isolation.  At every point of a run the per-file lines printed
\* so far are about exactly the files whose pass is over, one line each, in
\* the order of image_files; a run that has left the loop has reported every
\* selected file, whatever happened to the files before it.
C1_FaultIsolation ==
    /\ ReportedFiles = SubSeq(image_files, 1, FilesDone)
    /\ InPass => idx \in 1..Len(image_files)

\* C1 witness: a finished run of two files, the first failed, the second
\* processed.
C1_Witness ==
    /\ pc = "returned"
    /\ Len(image_files) = 2
    /\ Len(out) = 4
    /\ out[2].kind = "error"
    /\ out[3].kind = "processed"

\* C2: every file on disk holds its complete pre-run content or a
\* completely written resized image, at every point of a run.
C2_NoPartialWrite ==
    \A f \in DOMAIN disk : disk[f].state \in {"original", "resized"}

\* C3: a file whose processing ended before anything was written (a skip,
\* or an error of open, convert or resize) holds its pre-run content, during
\* the rest of the run and after it; so does the file of the current pass
\* until its save step.
C3_EarlyFailureLeavesFile ==
    /\ \A k \in 1..Len(out) :
          (\/ out[k].kind = "skip"
           \/ out[k].kind = "error" /\ out[k].e \in ErrorsBeforeWrite)
          => disk[out[k].file] = Original
    /\ BeforeWrite => disk[filename] = Original

\* C3 witness: a finished run with a skipped file and a file that could not
\* be decoded.
C3_Witness ==
    /\ pc = "returned"
    /\ \E k \in 1..Len(out) : out[k].kind = "skip"
    /\ \E k \in 1..Len(out) :
          out[k].kind = "error" /\ out[k].e = "UnidentifiedImageError"

\* C4: whenever the pass over a decoded image with a non-transparent pixel
\* ends without a fault of the environment, the file on disk is a resized
\* image of height TARGET_HEIGHT in the format of its extension.
C4_TargetHeightAllFormats ==
    (/\ pc \in {"report", "except"}
     /\ NonTransparent(img)
     /\ exc \notin EnvironmentFaults)
    => /\ disk[filename].state = "resized"
       /\ disk[filename].h = TARGET_HEIGHT
       /\ disk[filename].fmt = FormatOf(filename)

\* C5: the width the code computes is max(1, floor(width * TARGET_HEIGHT /
\* height)) on exact integers, and at least 1.
C5_WidthIsExactFloor ==
    pc = "scaled" => new_width = ExactWidth(width, height) /\ new_width >= 1

\* C6: with no directory to list, or one that cannot be read, the run ends
\* as the run over no images does: "no images found" and a normal return.
C6_MissingDirectoryDegrades ==
    (dir.status # "ok" /\ pc # "start")
    => pc = "returned" /\ out = <<NoImagesLine>>

\* C7: the entries handed to per-file processing are exactly the regular
\* files with an image extension, and no line is printed about any other
\* entry.
C7_OnlyRegularFilesSelected ==
    (dir.status = "ok" /\ pc # "start")
    => /\ image_files =
            SelectSeq(dir.listing, LAMBDA f : KindOf(f) = "file" /\ IsImageName(f))
       /\ \A k \in 1..Len(out) : IsFileLine(out[k]) => KindOf(out[k].file) = "file"

\* C8 as stated: every run that returns has printed the completion notice
\* last.
C8_CompleteIsLast ==
    pc = "returned" => out # <<>> /\ out[Len(out)] = CompleteLine

\* C8 amended: a run over a non-empty selection prints the start notice
\* first, then one line per file, then the completion notice last; a run
\* over an empty selection prints "no images found" and nothing else.
C8_NoticesInOrder ==
    /\ pc = "returned" =>
          IF image_files = <<>> THEN out = <<NoImagesLine>>
          ELSE /\ Len(out) = Len(image_files) + 2
               /\ out[1] = StartLine
               /\ out[Len(out)] = CompleteLine
               /\ \A k \in 2..(Len(out) - 1) : IsFileLine(out[k])
    /\ (InPass \/ pc = "finish") =>
          /\ out # <<>>
          /\ out[1] = StartLine
          /\ \A k \in 2..Len(out) : IsFileLine(out[k])

\* C8 witness: a returned run over two files.
C8_Witness ==
    /\ pc = "returned"
    /\ Len(image_files) = 2
    /\ out[Len(out)] = CompleteLine

\* the names of the pool that end, case-insensitively, in an image extension
MatchingNames == { f \in PoolNames : IsImageName(f) }

\* the format each name of the pool stands for
FormatByName == [f \in PoolNames |-> FormatOf(f)]

\* C9: a file that no longer holds its pre-run content is a selected file
\* whose own pass reached the save step; a file reported as processed holds
\* what its own pass wrote, whatever the later passes did; and a run over a
\* directory with no qualifying name prints "no images found" and changes
\* no file.
C9_WritesOnlySelected ==
    /\ \A f \in DOMAIN disk :
          disk[f] # Original =>
             /\ f \in MatchingNames
             /\ \E k \in 1..idx :
                   /\ image_files[k] = f
                   /\ (k = idx => ~BeforeWrite)
    /\ \A k \in 1..Len(out) :
          out[k].kind = "processed" =>
             disk[out[k].file] =
                Written([w |-> out[k].w, h |-> out[k].h], FormatByName[out[k].file])
    /\ (dir.status = "ok" /\ pc # "start"
        /\ \A k \in 1..Len(dir.listing) : dir.listing[k] \notin MatchingNames) =>
          /\ pc = "returned"
          /\ out = <<NoImagesLine>>
          /\ \A f \in DOMAIN disk : disk[f] = Original

\* C9 witness: a finished run that rewrote the second of two selected files
\* and nothing else.
C9_Witness ==
    /\ pc = "returned"
    /\ Len(image_files) = 2
    /\ disk[image_files[1]] = Original
    /\ disk[image_files[2]].state = "resized"

\* c is the minimal rectangle of im that holds all its non-transparent
\* pixels: a sub-rectangle, nothing but alpha 0 outside it, and a
\* non-transparent pixel on each of its four edges.
IsMinimalCropOf(c, im) ==
    /\ HasPixels(c)
    /\ \E l \in 0..(im.w - c.w), u \in 0..(im.h - c.h) :
          /\ \A y \in 1..c.h, x \in 1..c.w : c.px[y][x] = im.px[y + u][x + l]
          /\ \A y \in 1..im.h, x \in 1..im.w :
                (x <= l \/ x > l + c.w \/ y <= u \/ y > u + c.h) => im.px[y][x] = 0
    /\ \E x \in 1..c.w : c.px[1][x] > 0
    /\ \E x \in 1..c.w : c.px[c.h][x] > 0
    /\ \E y \in 1..c.h : c.px[y][1] > 0
    /\ \E y \in 1..c.h : c.px[y][c.w] > 0

\* the crop step of the current pass is over
Cropped == pc \in {"size", "skip", "resize", "save", "report"}
           \/ (pc = "except" /\ cropped_img # NoImage)

\* the one fork of the crop step, and the sizes the scale computation reads
CropFork ==
    /\ Cropped =>
          IF NonTransparent(img) THEN IsMinimalCropOf(cropped_img, img)
          ELSE cropped_img = img
    /\ pc \in {"resize", "save", "report"} =>
          /\ width = cropped_img.w
          /\ height = cropped_img.h
          /\ new_width = NewWidth(width, height)
          /\ new_height = TARGET_HEIGHT

====
